---- MODULE Spec2Model ----
(***************************************************************************)
(* EcoSchoolMap: the node layout of D3MapRenderer                          *)
(* (src/src/components/D3MapRenderer.js) as a state machine.               *)
(*                                                                         *)
(* Fixed-point units                                                       *)
(*   normalized coordinates : 1/10000            (1.0   = 10000)           *)
(*   pixel coordinates      : 1/110 px           (1 px  = 110)             *)
(*   alpha                  : 1/1000000          (1.0   = 1000000)         *)
(* With these units the two d3.scaleLinear maps of createScales            *)
(* (domain [-1.1,1.1], range [60,1140] and [640,60]) have the exact        *)
(* slopes 5.4 and -2.9 pixel units per normalized unit.                    *)
(*                                                                         *)
(* The d3-force library is not part of the repository; its documented      *)
(* behaviour (tick, alpha decay, forceX/forceY, forceCollide,              *)
(* forceManyBody, timer restart/stop, on(type, null)) is modelled at the   *)
(* places where the renderer configures and calls it.                      *)
(***************************************************************************)
EXTENDS Integers, Sequences, FiniteSets, TLC

\* ------------------------------------------------------------------ bounds

\* Number of requests (setCollisionEnabled / updateVariant calls) one behaviour makes.
MaxRequests == 2

\* A request or a timeout arrives while the simulation is stopped, or no later
\* than this many ticks into the current run.
MaxInterruptTick == 1

\* Largest number of schools scored together.
MaxSchools == 2

\* Largest number of values handed to a normalizer.
MaxValues == 3

\* Number of dropdown changes one behaviour of the page makes.
MaxChanges == 3

\* ------------------------------------------------------------- arithmetic

Abs(a) == IF a < 0 THEN -a ELSE a

Max(a, b) == IF a > b THEN a ELSE b

Min(a, b) == IF a < b THEN a ELSE b

\* Division rounding toward zero (the fixed-point image of a float quotient).
Div(a, b) == IF a >= 0 THEN a \div b ELSE -((-a) \div b)

RECURSIVE SqrtIter(_, _)
SqrtIter(n, x) ==
    LET y == (x + n \div x) \div 2
    IN  IF y >= x THEN x ELSE SqrtIter(n, y)

\* Math.sqrt, rounded down.
ISqrt(n) == IF n < 2 THEN n ELSE SqrtIter(n, IF n < 40000 THEN 200 ELSE 46340)

\* ----------------------------------------------------------------- scales

\* xScale: domain [-1.1, 1.1] -> range [padding, width - padding] = [60, 1140].
XScale(k) == 66000 + (54 * k) \div 10

\* yScale: domain [-1.1, 1.1] -> range [height - padding, padding] = [640, 60].
YScale(k) == 38500 - (29 * k) \div 10

\* xScale.invert / yScale.invert
XInvert(px) == Div((px - 66000) * 10, 54)

YInvert(py) == Div((38500 - py) * 10, 29)

\* ----------------------------------------------------------------- inputs

Nodes == {1, 2}

\* data.nodos[i].tipo
Tipo == <<"tradicional", "nuevo_paradigma">>

\* The variants the renderer is handed: data.nodos[i].posicion per preset.
\*   far     : two items 0.11 apart on the x axis (54 px, beyond the 53.1 px the two
\*             collision radii add up to)
\*   corner  : two items both scored exactly (1, 1)
\*   edge    : one item in the corner (-1,-1) and one 0.06 beside it (29.5 px)
Presets == {"far", "corner", "edge"}

Posicion(preset) ==
    CASE preset = "far"    -> <<  <<0, 0>>,           <<1100, 0>>        >>
      [] preset = "corner" -> <<  <<10000, 10000>>,   <<10000, 10000>>   >>
      [] preset = "edge"   -> <<  <<-10000, -10000>>, <<-9400, -10000>>  >>

\* Outcomes of (Math.random() - 0.5) * 0.001 for the x and y offset of each node:
\* every offset lies in [-0.0005, 0.0005), i.e. in -5 .. 4 normalized units.
JitterTables ==
    { << <<4, 2>>,  <<1, 3>> >>,
      << <<-3, 4>>, <<2, -5>> >> }

\* d3's jiggle() separates two exactly coincident points by a tiny offset drawn from
\* the simulation's own seeded generator; only its direction matters, scaled by 1000.
JiggleDir == <<-707, 707>>

\* ------------------------------------------------------------------ state

VARIABLES
    rendered,          \* render() has run: the node elements exist
    data,              \* this.data: the variant whose positions the renderer holds
    collisionEnabled,  \* this.collisionEnabled
    nodes,             \* simulation.nodes(): <<>> before render, then one record per node
    forces,            \* the simulation's force registry, in registration order
    xz,                \* the targets cached by forceX/forceY when they are initialized
    alpha,             \* simulation.alpha()
    alphaDecay,        \* simulation.alphaDecay(), in percent
    running,           \* the simulation's internal timer is active
    tickHandler,       \* listener registered for 'tick'
    endHandler,        \* listener registered for 'end'
    timers,            \* pending 4000 ms timeouts of restartSimulation, oldest first
    arrowPos,          \* end points last used to draw the transition arrows
    gen,               \* number of requests begun so far
    runTicks,          \* ticks since the simulation was last (re)started
    lastOp             \* the operation that produced this state

\* The scoring engine and the normalizers are pure functions; these hold the
\* arguments they are called with and what the last call returned or threw.
VARIABLES
    schools,           \* baseData.nodos: the descriptors of each school
    values,            \* an array of numbers handed to a normalizer
    outcome            \* the last call: its name, arguments and result

\* The variant controls of the page: the two dropdowns and the requests their
\* change events have started.
VARIABLES
    controls           \* the page: its elements, the dropdowns, the requests in flight

rendererVars == <<rendered, data, collisionEnabled, nodes, forces, xz, alpha, alphaDecay,
                  running, tickHandler, endHandler, timers, arrowPos, gen, runTicks, lastOp>>

scoreVars == <<schools, values, outcome>>

pageVars == <<controls>>

vars == <<rendererVars, scoreVars, pageVars>>

\* ------------------------------------------------------- symbols.js

\* getNodeSize(tipo): symbol area
getNodeSize(tipo) ==
    CASE tipo = "tradicional"     -> 400
      [] tipo = "nuevo_paradigma" -> 440
      [] tipo = "tradicion"       -> 400
      [] OTHER                    -> 400

\* ----------------------------------------------------- force registry

\* simulation.force(name, f): an existing name keeps its place, a new one is appended.
SetForce(fs, name, cfg) ==
    IF \E i \in 1..Len(fs) : fs[i].name = name
    THEN [i \in 1..Len(fs) |-> IF fs[i].name = name THEN [name |-> name, cfg |-> cfg] ELSE fs[i]]
    ELSE Append(fs, [name |-> name, cfg |-> cfg])

\* simulation.force(name, null)
DelForce(fs, name) == SelectSeq(fs, LAMBDA f : f.name # name)

HasForce(fs, name) == \E i \in 1..Len(fs) : fs[i].name = name

\* initForceSimulation(): charge, collision, x, y, position
InitForces ==
    << [name |-> "charge",    cfg |-> "init"],
       [name |-> "collision", cfg |-> "init"],
       [name |-> "x",         cfg |-> "init"],
       [name |-> "y",         cfg |-> "init"],
       [name |-> "position",  cfg |-> "init"] >>

\* enableCollisionForces(): forceCollide(radius visual+15, 0.9, 3), forceManyBody(-50, 150)
enableCollisionForces(fs) == SetForce(SetForce(fs, "collision", "live"), "charge", "live")

\* disableCollisionForces()
disableCollisionForces(fs) == DelForce(DelForce(fs, "collision"), "charge")

\* .force('x', d3.forceX(d => d.targetX).strength(0.3)).force('y', ...)
PositioningForces(fs) == SetForce(SetForce(fs, "x", "live"), "y", "live")

\* The targets forceX/forceY read when they are initialized.
Targets(nd) == [n \in 1..Len(nd) |-> <<nd[n].tx, nd[n].ty>>]

\* --------------------------------------------------------------- forces

\* forceX / forceY: vx += (target - x) * strength * alpha
\* (init: target 0, strength 0.05; live: target d.targetX, strength 0.3)
PosStrength(cfg) == IF cfg = "live" THEN 30 ELSE 5

Pull(target, pos, cfg, a) == Div(Div((target - pos) * PosStrength(cfg), 100) * (a \div 100), 10000)

ForceX(nd, cfg, cache, a) ==
    [n \in 1..Len(nd) |->
        [nd[n] EXCEPT !.vx = @ + Pull(IF cfg = "live" THEN cache[n][1] ELSE 0, nd[n].x, cfg, a)]]

ForceY(nd, cfg, cache, a) ==
    [n \in 1..Len(nd) |->
        [nd[n] EXCEPT !.vy = @ + Pull(IF cfg = "live" THEN cache[n][2] ELSE 0, nd[n].y, cfg, a)]]

\* forceCollide radius: init 45 px; live sqrt(getNodeSize(tipo) / PI) + 15 px
Radius(cfg, n) ==
    IF cfg = "live"
    THEN ISqrt((getNodeSize(Tipo[n]) * 12100 * 113) \div 355) + 1650
    ELSE 4950

\* forceCollide iterations: init 4, live 3
Iterations(cfg) == IF cfg = "live" THEN 3 ELSE 4

\* One pair (i, j), i < j, of forceCollide's apply(): xi, yi are node i's anticipated
\* position taken when its visit began; strength 0.9.
CollidePair(nd, cfg, jig, i, xi, yi, j) ==
    LET ri == Radius(cfg, i)
        rj == Radius(cfg, j)
        r  == ri + rj
        x  == xi - nd[j].x - nd[j].vx
        y  == yi - nd[j].y - nd[j].vy
    IN  IF Abs(x) >= r \/ Abs(y) >= r \/ x * x + y * y >= r * r
        THEN nd
        ELSE LET l  == x * x + y * y
                 d  == ISqrt(l)
                 px == IF l = 0 THEN Div(jig[1] * ((r * 9) \div 10), 1000)
                                ELSE Div(x * (r - d) * 9, 10 * d)
                 py == IF l = 0 THEN Div(jig[2] * ((r * 9) \div 10), 1000)
                                ELSE Div(y * (r - d) * 9, 10 * d)
                 w  == (((rj * rj) \div 100) * 1000) \div ((ri * ri + rj * rj) \div 100)
             IN  [nd EXCEPT ![i].vx = @ + Div(px * w, 1000),
                            ![i].vy = @ + Div(py * w, 1000),
                            ![j].vx = @ - Div(px * (1000 - w), 1000),
                            ![j].vy = @ - Div(py * (1000 - w), 1000)]

RECURSIVE CollideVisit(_, _, _, _, _, _, _)
CollideVisit(nd, cfg, jig, i, xi, yi, j) ==
    IF j > Len(nd) THEN nd
    ELSE CollideVisit(CollidePair(nd, cfg, jig, i, xi, yi, j), cfg, jig, i, xi, yi, j + 1)

RECURSIVE CollideNodes(_, _, _, _)
CollideNodes(nd, cfg, jig, i) ==
    IF i > Len(nd) THEN nd
    ELSE CollideNodes(
            CollideVisit(nd, cfg, jig, i, nd[i].x + nd[i].vx, nd[i].y + nd[i].vy, i + 1),
            cfg, jig, i + 1)

RECURSIVE ForceCollide(_, _, _, _)
ForceCollide(nd, cfg, jig, k) ==
    IF k = 0 THEN nd ELSE ForceCollide(CollideNodes(nd, cfg, jig, 1), cfg, jig, k - 1)

\* forceManyBody strength and distanceMax: init -0.12 * 100 and 100 px; live -50 and 150 px
ChargeStrength(cfg) == IF cfg = "live" THEN 50 ELSE 12

DistanceMax(cfg) == IF cfg = "live" THEN 16500 ELSE 11000

\* The velocity node i receives from node j: (xj - xi) * strength * alpha / l, with
\* l the squared distance (its square root below distanceMin = 1 px), nothing at
\* distanceMax or beyond; computed pair by pair (no Barnes-Hut grouping).
ChargeFrom(nd, cfg, a, jig, i, j) ==
    LET x  == nd[j].x - nd[i].x
        y  == nd[j].y - nd[i].y
        dm == DistanceMax(cfg)
    IN  IF Abs(x) >= dm \/ Abs(y) >= dm \/ x * x + y * y >= dm * dm
        THEN <<0, 0>>
        ELSE IF x = 0 /\ y = 0
        THEN LET k == (ChargeStrength(cfg) * 110 * (a \div 1000)) \div 1000
             IN  << - Div(jig[1] * k, 1000), - Div(jig[2] * k, 1000) >>
        ELSE LET d == ISqrt(x * x + y * y)
                 g == (12100 * ChargeStrength(cfg) * (a \div 1000)) \div Max(d, 110)
             IN  << - Div(x * g, 1000 * d), - Div(y * g, 1000 * d) >>

RECURSIVE ChargeSum(_, _, _, _, _, _)
ChargeSum(nd, cfg, a, jig, i, j) ==
    IF j > Len(nd) THEN <<0, 0>>
    ELSE LET rest == ChargeSum(nd, cfg, a, jig, i, j + 1)
             c    == IF j = i THEN <<0, 0>> ELSE ChargeFrom(nd, cfg, a, jig, i, j)
         IN  <<c[1] + rest[1], c[2] + rest[2]>>

ForceManyBody(nd, cfg, a, jig) ==
    [i \in 1..Len(nd) |->
        LET c == ChargeSum(nd, cfg, a, jig, i, 1)
        IN  [nd[i] EXCEPT !.vx = @ + c[1], !.vy = @ + c[2]]]

\* A decay that stalls at alphaMin, as with an alphaTarget left at alphaMin.
AlphaStepStalled(a, decay) == Max(1000, a - (a * decay) \div 100)

\* tick(): alpha += (alphaTarget - alpha) * alphaDecay, with alphaTarget 0
AlphaStep(a, decay) == a - (a * decay) \div 100

\* forces.forEach(force => force(alpha)), in registration order
RECURSIVE ApplyForces(_, _, _, _, _, _)
ApplyForces(nd, fs, k, cache, a, jig) ==
    IF k > Len(fs) THEN nd
    ELSE LET f  == fs[k]
             n1 == CASE f.name = "x"         -> ForceX(nd, f.cfg, cache, a)
                     [] f.name = "y"         -> ForceY(nd, f.cfg, cache, a)
                     [] f.name = "collision" -> ForceCollide(nd, f.cfg, jig, Iterations(f.cfg))
                     [] f.name = "charge"    -> ForceManyBody(nd, f.cfg, a, jig)
                     [] OTHER                -> nd
         IN  ApplyForces(n1, fs, k + 1, cache, a, jig)

\* node.x += node.vx *= velocityDecay, with velocityDecay(0.3) kept as the factor 0.7
Integrate(nd) ==
    [n \in 1..Len(nd) |->
        LET vx == Div(nd[n].vx * 7, 10)
            vy == Div(nd[n].vy * 7, 10)
        IN  [nd[n] EXCEPT !.vx = vx, !.vy = vy, !.x = @ + vx, !.y = @ + vy]]

\* -------------------------------------------------------------- targets

\* Math.max(-1, Math.min(1, v))
Clamp1(v) == Max(-10000, Min(10000, v))

\* The target of one node: posicion + offset, clamped to [-1, 1], scaled to pixels.
PixelTargetWideOffset(pos, off) ==
    << XScale(Clamp1(pos[1] + 10 * off[1])), YScale(Clamp1(pos[2] + 10 * off[2])) >>

PixelTarget(pos, off) == << XScale(Clamp1(pos[1] + off[1])), YScale(Clamp1(pos[2] + off[2])) >>

\* renderNodes step 1: nodeData, every node starting on its target with fx = fy = null;
\* simulation.nodes(nodeData) gives the new nodes zero velocity.
NodeData(preset, jt) ==
    [n \in Nodes |->
        LET t == PixelTarget(Posicion(preset)[n], jt[n])
        IN  [x |-> t[1], y |-> t[2], vx |-> 0, vy |-> 0, tx |-> t[1], ty |-> t[2]]]

\* updateNodesWithTransition, both loops: each simulation node gets its new target
\* and its coordinates are set to it; vx and vy are not touched.
Retarget(nd, preset, jt) ==
    [n \in 1..Len(nd) |->
        LET t == PixelTarget(Posicion(preset)[n], jt[n])
        IN  [nd[n] EXCEPT !.tx = t[1], !.ty = t[2], !.x = t[1], !.y = t[2]]]

\* resetNodesToTargets(): node.x = node.targetX, node.y = node.targetY
resetNodesToTargets(nd) == [n \in 1..Len(nd) |-> [nd[n] EXCEPT !.x = nd[n].tx, !.y = nd[n].ty]]

\* ---------------------------------------------------------------- arrows

\* renderTransitions / updateTransitionsWithAnimation: end points from data.nodos posicion
ArrowsFromData(preset) ==
    [n \in Nodes |-> << XScale(Posicion(preset)[n][1]), YScale(Posicion(preset)[n][2]) >>]

\* updateTransitionsDuringMovement: end points from the current node positions,
\* inverted to normalized coordinates and scaled again
ArrowsFromPositions(nd) ==
    [n \in 1..Len(nd) |-> << XScale(XInvert(nd[n].x)), YScale(YInvert(nd[n].y)) >>]

\* updateTransitionsToFinalPositions: current positions when collisions are enabled,
\* targets otherwise; nothing is redrawn while the simulation has no nodes
updateTransitionsToFinalPositions(nd, enabled, old) ==
    IF Len(nd) = 0 THEN old
    ELSE [n \in 1..Len(nd) |->
            IF enabled
            THEN << XScale(XInvert(nd[n].x)),  YScale(YInvert(nd[n].y)) >>
            ELSE << XScale(XInvert(nd[n].tx)), YScale(YInvert(nd[n].ty)) >>]

\* ------------------------------------------------------------ tick handler

\* The boundary constraint of the 'tick' listener registered by renderNodes:
\*   d.x = max(minX + r, min(maxX - r, d.x)),  d.y = max(minY + r, min(maxY - r, d.y))
\* with r = 15 px, minX = xScale(-0.95), maxX = xScale(0.95),
\* minY = yScale(-0.95), maxY = yScale(0.95).
BoundaryClamp(nd) ==
    LET r    == 1650
        minX == XScale(-9500)
        maxX == XScale(9500)
        minY == YScale(-9500)
        maxY == YScale(9500)
    IN  [n \in 1..Len(nd) |->
            [nd[n] EXCEPT !.x = Max(minX + r, Min(maxX - r, nd[n].x)),
                          !.y = Max(minY + r, Min(maxY - r, nd[n].y))]]

\* ------------------------------------------------------------------- Init

\* No page: the renderer and the scoring functions on their own.
NoPage == [version |-> "", dom |-> ""]

\* Nothing has been called yet.
NoCall == [op |-> "none", preset |-> "", method |-> "", error |-> "", result |-> <<>>]

\* new D3MapRenderer(container, data): init() and initForceSimulation(). The fresh
\* d3.forceSimulation() is running (alpha 1) with no nodes; alphaDecay(0.02).
Init ==
    /\ rendered = FALSE
    /\ data \in Presets
    /\ collisionEnabled = FALSE
    /\ nodes = <<>>
    /\ forces = InitForces
    /\ xz = <<>>
    /\ alpha = 1000000
    /\ alphaDecay = 2
    /\ running = TRUE
    /\ tickHandler = "none"
    /\ endHandler = "none"
    /\ timers = <<>>
    /\ arrowPos = <<>>
    /\ gen = 0
    /\ runTicks = 0
    /\ lastOp = "new"
    /\ schools = <<>>
    /\ values = <<>>
    /\ outcome = NoCall
    /\ controls = NoPage

\* The moments at which the environment (user, timeout queue) gets its turn.
Interruptible == ~running \/ runTicks <= MaxInterruptTick

\* ----------------------------------------------------------------- render

\* render(): renderTransitions() then renderNodes(). Every caller renders in the task
\* that constructed the renderer (main.js init), before the simulation's first tick.
Render ==
    /\ ~rendered
    /\ runTicks = 0
    /\ \E jt \in JitterTables :
          /\ nodes' = NodeData(data, jt)
          /\ xz' = Targets(NodeData(data, jt))
    /\ rendered' = TRUE
    /\ arrowPos' = ArrowsFromData(data)
    /\ IF collisionEnabled
       THEN /\ forces' = SetForce(SetForce(PositioningForces(forces), "collision", "live"),
                                  "charge", "live")
            /\ alpha' = 1000000
            /\ alphaDecay' = 5
            /\ running' = TRUE
            /\ runTicks' = 0
       ELSE /\ running' = FALSE
            /\ UNCHANGED <<forces, alpha, alphaDecay, runTicks>>
    /\ tickHandler' = "render"
    /\ endHandler' = "render"
    /\ lastOp' = "render"
    /\ UNCHANGED <<data, collisionEnabled, timers, gen, scoreVars, pageVars>>

\* ------------------------------------------------------ setCollisionEnabled

\* restartSimulation() returns at once while the simulation has no nodes; otherwise
\* it registers the positioning forces, sets alpha 0.6 and alphaDecay 0.05, restarts
\* and, collisions being enabled, schedules the 4000 ms timeout.
SetCollisionEnabled(enabled) ==
    /\ gen < MaxRequests
    /\ Interruptible
    /\ gen' = gen + 1
    /\ lastOp' = "toggle"
    /\ collisionEnabled' = enabled
    /\ tickHandler' = "none"
    /\ endHandler' = "none"
    /\ IF enabled
       THEN IF Len(nodes) = 0
            THEN /\ forces' = enableCollisionForces(forces)
                 /\ UNCHANGED <<nodes, xz, alpha, alphaDecay, running, timers, arrowPos, runTicks>>
            ELSE /\ forces' = PositioningForces(enableCollisionForces(forces))
                 /\ xz' = Targets(nodes)
                 /\ alpha' = 600000
                 /\ alphaDecay' = 5
                 /\ running' = TRUE
                 /\ runTicks' = 0
                 /\ timers' = Append(timers, gen + 1)
                 /\ UNCHANGED <<nodes, arrowPos>>
       ELSE /\ forces' = disableCollisionForces(forces)
            /\ running' = FALSE
            /\ nodes' = resetNodesToTargets(nodes)
            /\ arrowPos' = updateTransitionsToFinalPositions(resetNodesToTargets(nodes), FALSE, arrowPos)
            /\ UNCHANGED <<xz, alpha, alphaDecay, timers, runTicks>>
    /\ UNCHANGED <<rendered, data, scoreVars, pageVars>>

\* ------------------------------------------------------------ updateVariant

\* updateVariant(newData): this.data = newData, updateNodesWithTransition,
\* updateTransitionsWithAnimation.
UpdateVariant(preset, jt) ==
    /\ gen < MaxRequests
    /\ Interruptible
    /\ gen' = gen + 1
    /\ lastOp' = "update"
    /\ data' = preset
    /\ nodes' = Retarget(nodes, preset, jt)
    /\ IF collisionEnabled
       THEN /\ forces' = SetForce(SetForce(PositioningForces(forces), "collision", "live"),
                                  "charge", "live")
            /\ xz' = Targets(Retarget(nodes, preset, jt))
            /\ alpha' = 1000000
            /\ alphaDecay' = 5
            /\ running' = TRUE
            /\ runTicks' = 0
            /\ endHandler' = "update"
       ELSE UNCHANGED <<forces, xz, alpha, alphaDecay, running, runTicks, endHandler>>
    /\ arrowPos' = IF rendered THEN ArrowsFromData(preset) ELSE arrowPos
    /\ UNCHANGED <<rendered, collisionEnabled, tickHandler, timers, scoreVars, pageVars>>

\* ---------------------------------------------------------------- timeout

\* The callback of restartSimulation's setTimeout(..., 4000):
\*   this.simulation.alpha(0).restart(); this.updateTransitionsToFinalPositions();
TimerFire ==
    /\ timers # <<>>
    /\ Interruptible
    /\ timers' = Tail(timers)
    /\ lastOp' = "timeout"
    /\ alpha' = 0
    /\ running' = TRUE
    /\ runTicks' = 0
    /\ arrowPos' = updateTransitionsToFinalPositions(nodes, collisionEnabled, arrowPos)
    /\ UNCHANGED <<rendered, data, collisionEnabled, nodes, forces, xz, alphaDecay,
                   tickHandler, endHandler, gen, scoreVars, pageVars>>

\* ------------------------------------------------------------------- tick

\* One step of the simulation's timer: tick(), the 'tick' listener, and, once alpha
\* is below alphaMin = 0.001, stop and the 'end' listener.
Step ==
    LET a1  == AlphaStep(alpha, alphaDecay)
        n1  == Integrate(ApplyForces(nodes, forces, 1, xz, a1, JiggleDir))
        n2  == IF tickHandler = "render" THEN BoundaryClamp(n1) ELSE n1
        ar1 == IF tickHandler = "render" /\ Len(n2) > 0 THEN ArrowsFromPositions(n2) ELSE arrowPos
        end == a1 < 1000
    IN  /\ running
        /\ alpha' = a1
        /\ nodes' = n2
        /\ running' = ~end
        /\ arrowPos' = IF end /\ endHandler = "render"
                       THEN updateTransitionsToFinalPositions(n2, collisionEnabled, ar1)
                       ELSE ar1
        /\ runTicks' = runTicks + 1
        /\ lastOp' = "tick"
        /\ UNCHANGED <<rendered, data, collisionEnabled, forces, xz, alphaDecay,
                       tickHandler, endHandler, timers, gen, scoreVars, pageVars>>

\* ------------------------------------------------------------ specification

Next ==
    \/ Render
    \/ \E enabled \in BOOLEAN : SetCollisionEnabled(enabled)
    \/ \E preset \in Presets, jt \in JitterTables : UpdateVariant(preset, jt)
    \/ TimerFire
    \/ Step

Spec == Init /\ [][Next]_vars

\* ------------------------------------------------------- failing switches

\* loadAndUpdateVariant when loadVariant or mergeVariantWithBase throws (the variant
\* cannot be fetched or computed): updateVariant is never called, the catch block
\* shows the error message.
LoadFails ==
    /\ rendered
    /\ lastOp' = "loadFailed"
    /\ UNCHANGED <<rendered, data, collisionEnabled, nodes, forces, xz, alpha, alphaDecay,
                   running, tickHandler, endHandler, timers, arrowPos, gen, runTicks,
                   scoreVars, pageVars>>

\* loadAndUpdateVariant when updateVariant(newData) throws in its last call:
\* newData.transiciones is not an array (absent from the base data and the variant,
\* which renderTransitions tolerates, or not an array in the variant), so
\* updateTransitionsWithAnimation throws at newTransiciones.forEach. By then
\* this.data = newData and updateNodesWithTransition have run; nothing is undone in
\* updateVariant or in the catch block of loadAndUpdateVariant.
UpdateVariantFails(preset, jt) ==
    /\ rendered
    /\ gen < MaxRequests
    /\ Interruptible
    /\ gen' = gen + 1
    /\ lastOp' = "updateFailed"
    /\ data' = preset
    /\ nodes' = Retarget(nodes, preset, jt)
    /\ IF collisionEnabled
       THEN /\ forces' = SetForce(SetForce(PositioningForces(forces), "collision", "live"),
                                  "charge", "live")
            /\ xz' = Targets(Retarget(nodes, preset, jt))
            /\ alpha' = 1000000
            /\ alphaDecay' = 5
            /\ running' = TRUE
            /\ runTicks' = 0
            /\ endHandler' = "update"
       ELSE UNCHANGED <<forces, xz, alpha, alphaDecay, running, runTicks, endHandler>>
    /\ UNCHANGED <<rendered, collisionEnabled, tickHandler, timers, arrowPos, scoreVars, pageVars>>

SwitchNext ==
    \/ Next
    \/ LoadFails
    \/ \E preset \in Presets, jt \in JitterTables : UpdateVariantFails(preset, jt)

SwitchSpec == Init /\ [][SwitchNext]_vars


\* ------------------------------------------------------------ scoring engine
\* (utils/scoring.js)
\*
\* Numbers are fractions <<num, den>> with den > 0; <<0, 0>> is NaN. Scores are
\* tenths, weights hundredths, so that a weighted sum is an exact number of
\* thousandths. The doubles of the code carry rounding errors of the order of
\* 1e-16; they are modelled only where the code amplifies them (the std === 0
\* test of zscoreNormalize).

NaN == <<0, 0>>

Thousandths(n) == <<n, 1000>>

\* Math.max(-1.0, Math.min(1.0, v)); both return NaN for a NaN argument.
ClipUnit(v) == IF v = NaN THEN NaN ELSE <<Max(-v[2], Min(v[2], v[1])), v[2]>>

\* Property names an object literal has without defining them: they are found on
\* Object.prototype ("toString", "valueOf", "hasOwnProperty", "__proto__", ...
\* behave like "constructor") and their values are truthy.
InheritedNames == {"constructor"}

\* obj[name] for an object literal with the own properties own: "own", "inherited"
\* (truthy, but without the properties the code expects) or "undefined".
Property(own, name) ==
    IF name \in own THEN "own"
    ELSE IF name \in InheritedNames THEN "inherited"
    ELSE "undefined"

PresetNames == {"base", "state-emphasis", "equity-emphasis", "market-emphasis",
                "growth-emphasis", "historical-emphasis", "pragmatic-emphasis"}

\* Weights of economia, humano, mundo, ambito, motor, politica, in hundredths.
WEIGHT_PRESETS(name) ==
    CASE name = "base" ->
            [x |-> <<10, 15, 5, 15, 20, 35>>,  y |-> <<10, 15, 5, 15, 20, 35>>]
      [] name = "state-emphasis" ->
            [x |-> <<20, 10, 10, 15, 20, 25>>, y |-> <<10, 15, 5, 15, 20, 35>>]
      [] name = "equity-emphasis" ->
            [x |-> <<10, 15, 5, 15, 20, 35>>,  y |-> <<15, 20, 10, 20, 15, 20>>]
      [] name = "market-emphasis" ->
            [x |-> <<5, 10, 15, 20, 25, 25>>,  y |-> <<10, 15, 5, 15, 20, 35>>]
      [] name = "growth-emphasis" ->
            [x |-> <<10, 15, 5, 15, 20, 35>>,  y |-> <<5, 10, 15, 20, 25, 25>>]
      [] name = "historical-emphasis" ->
            [x |-> <<15, 10, 20, 10, 15, 30>>, y |-> <<10, 15, 5, 15, 20, 35>>]
      [] name = "pragmatic-emphasis" ->
            [x |-> <<12, 18, 8, 12, 18, 32>>,  y |-> <<12, 18, 8, 12, 18, 32>>]

\* SCORES_ECONOMIA ... SCORES_POLITICA, <<x, y>> in tenths.
SCORES_ECONOMIA ==
    "clases_sociales" :> <<7, 5>> @@ "individuos" :> <<-9, -5>> @@
    "instituciones" :> <<3, 0>> @@ "sistema_complejo" :> <<5, 2>> @@
    "sistema_productivo" :> <<6, -6>>

SCORES_HUMANO ==
    "racional_egoista" :> <<-8, -8>> @@ "racional_limitada" :> <<2, 3>> @@
    "condicionado_clase" :> <<7, 7>> @@ "adaptable_cultural" :> <<1, 1>>

SCORES_MUNDO ==
    "equilibrio_cierto" :> <<-7, -3>> @@ "incertidumbre" :> <<4, 0>> @@
    "evolutivo_dinamico" :> <<-2, -6>> @@ "determinista_historico" :> <<5, 0>>

SCORES_AMBITO ==
    "intercambio_mercado" :> <<-6, -2>> @@ "produccion" :> <<3, -9>> @@
    "distribucion" :> <<6, 9>> @@ "consumo_demanda" :> <<4, 3>>

SCORES_MOTOR ==
    "accion_individual" :> <<-10, -4>> @@ "acumulacion_capital" :> <<-5, -8>> @@
    "innovacion" :> <<-3, -7>> @@ "conflicto_social" :> <<8, 8>> @@
    "politica_estado" :> <<9, -7>>

SCORES_POLITICA ==
    "laissez_faire" :> <<-10, -5>> @@ "fallos_mercado" :> <<-2, 0>> @@
    "welfare_state" :> <<5, 6>> @@ "developmental_state" :> <<8, -8>> @@
    "planificacion_central" :> <<10, 5>>

\* Object.entries(SCORE_MAPPINGS), in insertion order; descriptors are held in the
\* same order (keyMapping pairs each scoring key with its data key), "" when absent.
SCORE_MAPPINGS ==
    <<SCORES_ECONOMIA, SCORES_HUMANO, SCORES_MUNDO, SCORES_AMBITO, SCORES_MOTOR,
      SCORES_POLITICA>>

\* school.descriptores of a school that has no descriptor record.
NoRecord == <<>>

\* if (descriptorValue && scoreDict[descriptorValue]): what scoreDict[descriptorValue] is
ScoreLookup(descriptors, k) ==
    IF descriptors[k] = "" THEN "undefined"
    ELSE Property(DOMAIN SCORE_MAPPINGS[k], descriptors[k])

RECURSIVE WeightedSum(_, _, _, _)
WeightedSum(descriptors, w, axis, k) ==
    IF k = 0 THEN 0
    ELSE WeightedSum(descriptors, w, axis, k - 1)
         + IF ScoreLookup(descriptors, k) = "own"
           THEN SCORE_MAPPINGS[k][descriptors[k]][axis] * w[k]
           ELSE 0

\* calculateSchoolPosition(descriptors, weights). weights is "inherited" when the
\* preset name found an inherited property: weights.x is then undefined and
\* weights.x[scoreKey] throws a TypeError as soon as one descriptor passes the if.
\* A descriptor value that finds an inherited property passes the if as well; its
\* scores.x is undefined and undefined * weight is NaN, for x and for y.
\* With descriptors undefined, descriptors[dataKey] throws in the first round.
calculateSchoolPosition(descriptors, weights) ==
    LET entered == {k \in 1..6 : ScoreLookup(descriptors, k) # "undefined"}
        nan     == \E k \in entered : ScoreLookup(descriptors, k) = "inherited"
    IN  IF descriptors = NoRecord
        THEN [error |-> "TypeError", pos |-> <<Thousandths(0), Thousandths(0)>>]
        ELSE IF weights.kind = "inherited"
        THEN [error |-> IF entered = {} THEN "" ELSE "TypeError",
              pos   |-> <<Thousandths(0), Thousandths(0)>>]
        ELSE [error |-> "",
              pos   |-> IF nan THEN <<NaN, NaN>>
                        ELSE << ClipUnit(Thousandths(WeightedSum(descriptors, weights.x, 1, 6))),
                                ClipUnit(Thousandths(WeightedSum(descriptors, weights.y, 2, 6))) >>]

\* WEIGHT_PRESETS[presetName]
PresetLookup(presetName) ==
    IF Property(PresetNames, presetName) = "own"
    THEN [kind |-> "own", x |-> WEIGHT_PRESETS(presetName).x, y |-> WEIGHT_PRESETS(presetName).y]
    ELSE [kind |-> Property(PresetNames, presetName), x |-> <<>>, y |-> <<>>]

\* getWeightPreset(presetName): WEIGHT_PRESETS[presetName] || WEIGHT_PRESETS['base']
getWeightPreset(presetName) ==
    IF PresetLookup(presetName).kind = "undefined" THEN PresetLookup("base")
    ELSE PresetLookup(presetName)


\* ------------------------------------------------------------- normalizers
\* The arrays handed to the normalizers hold thousandths (or NaN).

HasNaN(vals) == \E i \in 1..Len(vals) : vals[i] = NaN

AllNaN(vals) == [i \in 1..Len(vals) |-> NaN]

RECURSIVE SumNum(_, _)
SumNum(vals, k) == IF k = 0 THEN 0 ELSE SumNum(vals, k - 1) + vals[k][1]

RECURSIVE SumSq(_, _)
SumSq(devs, k) == IF k = 0 THEN 0 ELSE SumSq(devs, k - 1) + devs[k] * devs[k]

\* The sum of n equal doubles divided by n is not always that double. For the
\* numbers scored and normalized here, n copies of v thousandths have, in IEEE 754
\* double arithmetic (values.reduce from 0, then / values.length), a mean one unit
\* in the last place above v (1) or below v (-1) for these <<v, n>>, and exactly v
\* for all others with n <= 5.
MeanRoundoff(v, n) ==
    IF <<v, n>> \in { <<-865, 3>>, <<-850, 5>>, <<-465, 5>>, <<-225, 3>>, <<100, 3>>,
                      <<760, 3>>, <<800, 3>> } THEN 1
    ELSE IF <<v, n>> \in { <<-885, 3>>, <<-880, 3>>, <<-180, 3>>, <<235, 3>>, <<700, 3>> }
    THEN -1
    ELSE 0

\* zscoreNormalize without the final Math.max(-1, Math.min(1, z)).
zscoreNormalizeUnclipped(vals) ==
    LET n    == Len(vals)
        sum  == SumNum(vals, n)
        d    == [i \in 1..n |-> n * vals[i][1] - sum]
        ss   == SumSq(d, n)
        stdn == Max(1, ISqrt(ss \div n))
    IN  IF HasNaN(vals) THEN AllNaN(vals)
        ELSE IF ss = 0
        THEN [i \in 1..n |-> Thousandths(-1000 * MeanRoundoff(vals[i][1], n))]
        ELSE [i \in 1..n |-> Thousandths(Div(d[i] * 1000, stdn))]

\* zscoreNormalize(values). With d[i] = n * values[i] - sum, (val - mean) / std is
\* d[i] / sqrt(sumsq(d) / n); it is clipped to 1 (-1) exactly when n * d[i]^2 >=
\* sumsq(d), and otherwise given to the nearest thousandth below (where |z| is
\* exactly 1 the doubles give 1 or a number one rounding error below it, which is 1
\* at this resolution). When all values
\* are equal, std === 0 only if the computed mean is exactly that value; with a
\* roundoff r every val - mean is the same rounding error of sign -r, std is its
\* absolute value, and every z-score is -r.
zscoreNormalize(vals) ==
    LET n    == Len(vals)
        sum  == SumNum(vals, n)
        d    == [i \in 1..n |-> n * vals[i][1] - sum]
        ss   == SumSq(d, n)
        stdn == Max(1, ISqrt(ss \div n))
    IN  IF HasNaN(vals) THEN AllNaN(vals)
        ELSE IF ss = 0
        THEN [i \in 1..n |-> Thousandths(-1000 * MeanRoundoff(vals[i][1], n))]
        ELSE [i \in 1..n |->
                IF n * d[i] * d[i] >= ss
                THEN Thousandths(IF d[i] > 0 THEN 1000 ELSE -1000)
                ELSE Thousandths(Max(-999, Min(999, Div(d[i] * 1000, stdn))))]

\* indexed.sort((a, b) => a[0] - b[0]): the orders the sort may leave the indices in.
\* Array.prototype.sort is stable, so numbers have one order, equal values staying
\* in input order; with a NaN among the values the comparator is inconsistent and
\* the order is implementation-defined.
SortOrders(vals) ==
    LET n     == Len(vals)
        perms == {p \in [1..n -> 1..n] : \A i, j \in 1..n : i # j => p[i] # p[j]}
    IN  IF HasNaN(vals) THEN perms
        ELSE {p \in perms :
                \A k, l \in 1..n :
                    k < l => \/ vals[p[k]][1] < vals[p[l]][1]
                             \/ vals[p[k]][1] = vals[p[l]][1] /\ p[k] < p[l]}

\* percentileNormalize returning the percentiles in sorted order, not written back
\* to ranks[originalIdx].
percentileNormalizeSorted(vals, order) ==
    LET n == Len(vals)
    IN  [i \in 1..n |-> IF n = 1 THEN NaN ELSE <<2 * (i - 1) - (n - 1), n - 1>>]

\* percentileNormalize ranking from the largest value down.
percentileNormalizeDescending(vals, order) ==
    LET n     == Len(vals)
        rank  == [i \in 1..n |-> CHOOSE k \in 1..n : order[k] = i]
    IN  [i \in 1..n |->
            IF n = 1 THEN NaN ELSE <<(n - 1) - 2 * (rank[i] - 1), n - 1>>]

\* percentileNormalize giving equal values the same rank, the lowest of theirs.
percentileNormalizeTiedRanks(vals, order) ==
    LET n     == Len(vals)
        rank  == [i \in 1..n |->
                    1 + Cardinality({j \in 1..n : vals[j][1] < vals[i][1]})]
    IN  [i \in 1..n |->
            IF n = 1 THEN NaN ELSE <<2 * (rank[i] - 1) - (n - 1), n - 1>>]

\* percentileNormalize with the percentile taken as (rank - 1) / n.
percentileNormalizeByCount(vals, order) ==
    LET n     == Len(vals)
        rank  == [i \in 1..n |-> CHOOSE k \in 1..n : order[k] = i]
    IN  [i \in 1..n |-> <<2 * (rank[i] - 1) - n, n>>]

\* percentileNormalize(values): ranks[order[k]] = k, percentile (rank - 1) / (n - 1),
\* result 2 * p - 1 = (2 * (rank - 1) - (n - 1)) / (n - 1); for n = 1 that is 0 / 0.
percentileNormalize(vals, order) ==
    LET n     == Len(vals)
        rank  == [i \in 1..n |-> CHOOSE k \in 1..n : order[k] = i]
    IN  [i \in 1..n |->
            IF n = 1 THEN NaN ELSE <<2 * (rank[i] - 1) - (n - 1), n - 1>>]

MinOf(vals) == CHOOSE m \in {vals[i][1] : i \in 1..Len(vals)} :
                    \A i \in 1..Len(vals) : m <= vals[i][1]

MaxOf(vals) == CHOOSE m \in {vals[i][1] : i \in 1..Len(vals)} :
                    \A i \in 1..Len(vals) : m >= vals[i][1]

\* minmaxNormalize without the rescaling of [0, 1] to [-1, 1].
minmaxNormalizeUnitInterval(vals) ==
    IF Len(vals) = 0 THEN <<>>
    ELSE IF HasNaN(vals) THEN AllNaN(vals)
    ELSE IF MaxOf(vals) = MinOf(vals)
    THEN [i \in 1..Len(vals) |-> Thousandths(0)]
    ELSE [i \in 1..Len(vals) |->
            <<vals[i][1] - MinOf(vals), MaxOf(vals) - MinOf(vals)>>]

\* minmaxNormalize(values): Math.min and Math.max return NaN when a value is NaN,
\* NaN === NaN is false and every (val - NaN) / NaN is NaN.
minmaxNormalize(vals) ==
    IF Len(vals) = 0 THEN <<>>
    ELSE IF HasNaN(vals) THEN AllNaN(vals)
    ELSE IF MaxOf(vals) = MinOf(vals)
    THEN [i \in 1..Len(vals) |-> Thousandths(0)]
    ELSE [i \in 1..Len(vals) |->
            <<2 * (vals[i][1] - MinOf(vals)) - (MaxOf(vals) - MinOf(vals)),
              MaxOf(vals) - MinOf(vals)>>]

\* The platform has nothing to decide when nothing is sorted.
NoPlatform == [ox |-> <<>>, oy |-> <<>>]

\* What the platform decides in one normalization of x and y values: the order
\* each sort of percentileNormalize leaves.
Platforms(xs, ys, method) ==
    [ox : IF method = "percentile" THEN SortOrders(xs) ELSE {<<>>},
     oy : IF method = "percentile" THEN SortOrders(ys) ELSE {<<>>}]

\* applyNormalization whose default branch normalizes with minmaxNormalize.
applyNormalizationDefaultMinmax(positions, method, pf) ==
    LET xs == [i \in 1..Len(positions) |-> positions[i][1]]
        ys == [i \in 1..Len(positions) |-> positions[i][2]]
        xn == CASE method = "zscore"     -> zscoreNormalize(xs)
                [] method = "percentile" -> percentileNormalize(xs, pf.ox)
                [] OTHER                 -> minmaxNormalize(xs)
        yn == CASE method = "zscore"     -> zscoreNormalize(ys)
                [] method = "percentile" -> percentileNormalize(ys, pf.oy)
                [] OTHER                 -> minmaxNormalize(ys)
    IN  [i \in 1..Len(positions) |-> <<xn[i], yn[i]>>]

\* applyNormalization(positions, method): any method other than the three returns
\* the positions as they are.
applyNormalization(positions, method, pf) ==
    LET xs == [i \in 1..Len(positions) |-> positions[i][1]]
        ys == [i \in 1..Len(positions) |-> positions[i][2]]
        xn == CASE method = "zscore"     -> zscoreNormalize(xs)
                [] method = "percentile" -> percentileNormalize(xs, pf.ox)
                [] method = "minmax"     -> minmaxNormalize(xs)
                [] OTHER                 -> xs
        yn == CASE method = "zscore"     -> zscoreNormalize(ys)
                [] method = "percentile" -> percentileNormalize(ys, pf.oy)
                [] method = "minmax"     -> minmaxNormalize(ys)
                [] OTHER                 -> ys
    IN  [i \in 1..Len(positions) |-> <<xn[i], yn[i]>>]

\* calculatePositions(schools, presetName, normalizationMethod): throws for a preset
\* name that finds nothing in WEIGHT_PRESETS, passes on what calculateSchoolPosition
\* throws, and normalizes unless the method is 'none'.
calculatePositions(sch, presetName, method, pf) ==
    LET weights == PresetLookup(presetName)
        raw     == [i \in 1..Len(sch) |-> calculateSchoolPosition(sch[i], weights)]
        rawPos  == [i \in 1..Len(sch) |-> raw[i].pos]
    IN  IF weights.kind = "undefined"
        THEN [error |-> "Unknown preset", positions |-> <<>>]
        ELSE IF \E i \in 1..Len(sch) : raw[i].error # ""
        THEN [error |-> "TypeError", positions |-> <<>>]
        ELSE [error |-> "",
              positions |-> IF method # "none"
                            THEN applyNormalization(rawPos, method, pf)
                            ELSE rawPos]

\* The raw positions calculatePositions normalizes.
RawPositions(sch, presetName) ==
    [i \in 1..Len(sch) |-> calculateSchoolPosition(sch[i], PresetLookup(presetName)).pos]

\* calculateVariant(baseData, preset, normalization): the positions of
\* calculatePositions become the posicion of each node; an error is logged and
\* thrown again.
calculateVariant(sch, presetName, method, pf) == calculatePositions(sch, presetName, method, pf)


\* ------------------------------------------------- scoring: inputs and calls

\* descriptores of a school, in the order of SCORE_MAPPINGS:
\*   the school with the largest x scores, the one with the smallest, a mixed one,
\*   one without descriptors, one whose values are in no table, one whose
\*   concepcion_economia is the name of an inherited property, and one that has
\*   no descriptores at all.
Catalogue ==
    { <<"clases_sociales", "condicionado_clase", "determinista_historico",
        "distribucion", "conflicto_social", "planificacion_central">>,
      <<"individuos", "racional_egoista", "equilibrio_cierto",
        "intercambio_mercado", "accion_individual", "laissez_faire">>,
      <<"instituciones", "racional_limitada", "incertidumbre",
        "produccion", "politica_estado", "fallos_mercado">>,
      <<"", "", "", "", "", "">>,
      <<"otro", "otro", "otro", "otro", "otro", "otro">>,
      <<"constructor", "racional_limitada", "incertidumbre",
        "produccion", "politica_estado", "fallos_mercado">>,
      NoRecord }

SchoolLists == UNION {[1..n -> Catalogue] : n \in 0..MaxSchools}

\* Numbers a normalizer is called with, in thousandths.
ValueSet == {-500, 100, 300, 700}

ValueLists == UNION {[1..n -> {Thousandths(v) : v \in ValueSet}] : n \in 0..MaxValues}

\* Preset names asked for: the seven defined ones, 'balanced' (which the loader
\* lists and WEIGHT_PRESETS does not define) and the name of an inherited property.
RequestedPresets == PresetNames \cup {"balanced", "constructor"}

\* Normalization names asked for: the four of the selector and one that is none of them.
RequestedMethods == {"none", "zscore", "percentile", "minmax", "robust"}

\* The platform's choices for one calculatePositions call.
PlatformsFor(sch, presetName, method) ==
    IF PresetLookup(presetName).kind = "undefined"
    THEN Platforms(<<>>, <<>>, "none")
    ELSE LET raw == RawPositions(sch, presetName)
         IN  Platforms([i \in 1..Len(sch) |-> raw[i][1]],
                       [i \in 1..Len(sch) |-> raw[i][2]], method)

\* renderNodes: Math.max(-1, Math.min(1, node.posicion.x + offsetX)) and the linear
\* scales keep a NaN coordinate NaN and a number a number; the target a position
\* becomes, without the offset and before the scale.
SolverTarget(pos) == <<ClipUnit(pos[1]), ClipUnit(pos[2])>>

\* The functions keep nothing between calls: a behaviour draws the arguments and
\* makes one call on them.
ScoreInit ==
    /\ rendered = FALSE
    /\ data = "far"
    /\ collisionEnabled = FALSE
    /\ nodes = <<>>
    /\ forces = InitForces
    /\ xz = <<>>
    /\ alpha = 1000000
    /\ alphaDecay = 2
    /\ running = TRUE
    /\ tickHandler = "none"
    /\ endHandler = "none"
    /\ timers = <<>>
    /\ arrowPos = <<>>
    /\ gen = 0
    /\ runTicks = 0
    /\ lastOp = "new"
    /\ \/ schools \in SchoolLists /\ values = <<>>
       \/ schools = <<>> /\ values \in ValueLists
    /\ outcome = NoCall
    /\ controls = NoPage

CalculatePositions(presetName, method) ==
    /\ outcome = NoCall
    /\ \E pf \in PlatformsFor(schools, presetName, method) :
          LET r == calculatePositions(schools, presetName, method, pf)
          IN  outcome' = [op |-> "calculatePositions", preset |-> presetName,
                          method |-> method, error |-> r.error, result |-> r.positions]
    /\ UNCHANGED <<schools, values, rendererVars, pageVars>>

CalculateVariant(presetName, method) ==
    /\ outcome = NoCall
    /\ \E pf \in PlatformsFor(schools, presetName, method) :
          LET r == calculateVariant(schools, presetName, method, pf)
          IN  outcome' = [op |-> "calculateVariant", preset |-> presetName,
                          method |-> method, error |-> r.error, result |-> r.positions]
    /\ UNCHANGED <<schools, values, rendererVars, pageVars>>

GetWeightPreset(presetName) ==
    /\ outcome = NoCall
    /\ outcome' = [op |-> "getWeightPreset", preset |-> presetName, method |-> "",
                   error |-> "", result |-> getWeightPreset(presetName)]
    /\ UNCHANGED <<schools, values, rendererVars, pageVars>>

ZscoreNormalize ==
    /\ outcome = NoCall
    /\ outcome' = [op |-> "zscoreNormalize", preset |-> "", method |-> "zscore",
                   error |-> "", result |-> zscoreNormalize(values)]
    /\ UNCHANGED <<schools, values, rendererVars, pageVars>>

PercentileNormalize ==
    /\ outcome = NoCall
    /\ \E o \in SortOrders(values) :
          outcome' = [op |-> "percentileNormalize", preset |-> "", method |-> "percentile",
                      error |-> "", result |-> percentileNormalize(values, o)]
    /\ UNCHANGED <<schools, values, rendererVars, pageVars>>

\* percentileNormalize called again on what it returned.
PercentileNormalizeOutput ==
    /\ outcome.op = "percentileNormalize"
    /\ values' = outcome.result
    /\ \E o \in SortOrders(outcome.result) :
          outcome' = [op |-> "percentileNormalizeOutput", preset |-> "",
                      method |-> "percentile", error |-> "",
                      result |-> percentileNormalize(outcome.result, o)]
    /\ UNCHANGED <<schools, rendererVars, pageVars>>

MinmaxNormalize ==
    /\ outcome = NoCall
    /\ outcome' = [op |-> "minmaxNormalize", preset |-> "", method |-> "minmax",
                   error |-> "", result |-> minmaxNormalize(values)]
    /\ UNCHANGED <<schools, values, rendererVars, pageVars>>

ScoreNext ==
    \/ \E presetName \in RequestedPresets, method \in RequestedMethods :
            CalculatePositions(presetName, method)
    \/ \E presetName \in RequestedPresets, method \in RequestedMethods :
            CalculateVariant(presetName, method)
    \/ \E presetName \in RequestedPresets : GetWeightPreset(presetName)
    \/ ZscoreNormalize
    \/ PercentileNormalize
    \/ PercentileNormalizeOutput
    \/ MinmaxNormalize

ScoreSpec == ScoreInit /\ [][ScoreNext]_vars

\* ---------------------------------------------- scoring: positions by id

\* School ids: two that are array indices for Object.keys, listed in ascending
\* numeric order before all others, and one that is not.
Ids == {"9", "10", "marxista"}

\* The number an integer-like key stands for, -1 for any other key.
ArrayIndex(id) == CASE id = "9" -> 9 [] id = "10" -> 10 [] OTHER -> -1

\* schools of calculatePositions with their ids: different schools, different ids.
KeyedSchoolLists ==
    {sch \in UNION {[1..n -> [id : Ids, descriptores : Catalogue]] : n \in 0..MaxSchools} :
        \A i, j \in 1..Len(sch) : i # j => sch[i].id # sch[j].id}

\* Object.keys(positions) of an object whose keys were inserted in the order of sch:
\* integer-like keys in ascending numeric order, then the others in insertion order.
ObjectKeys(sch) ==
    LET n      == Len(sch)
        before(i, j) ==
            IF ArrayIndex(sch[i].id) >= 0
            THEN ArrayIndex(sch[j].id) < 0 \/ ArrayIndex(sch[i].id) < ArrayIndex(sch[j].id)
            ELSE ArrayIndex(sch[j].id) < 0 /\ i < j
        place(i) == 1 + Cardinality({j \in 1..n : before(j, i)})
    IN  [k \in 1..n |-> sch[CHOOSE i \in 1..n : place(i) = k].id]

\* rawPositions[school.id] = calculateSchoolPosition(school.descriptores, weights)
RawPositionsById(sch, presetName) ==
    [id \in {sch[i].id : i \in 1..Len(sch)} |->
        LET i == CHOOSE j \in 1..Len(sch) : sch[j].id = id
        IN  calculateSchoolPosition(sch[i].descriptores, PresetLookup(presetName)).pos]

\* calculatePositions with the ids: rawPositions keyed by school.id; applyNormalization
\* maps Object.keys(positions) to the x and y values, normalizes them and writes
\* normalizedPositions[id] from xNormalized[index], yNormalized[index].
calculatePositionsById(sch, presetName, method, pf) ==
    LET plain    == calculatePositions([i \in 1..Len(sch) |-> sch[i].descriptores],
                                       presetName, "none", NoPlatform)
        raw      == RawPositionsById(sch, presetName)
        schoolIds == ObjectKeys(sch)
        listed   == [k \in 1..Len(schoolIds) |-> raw[schoolIds[k]]]
        norm     == applyNormalization(listed, method, pf)
    IN  IF plain.error # "" THEN [error |-> plain.error, positions |-> <<>>]
        ELSE [error |-> "",
              positions |-> IF method = "none" \/ method \notin {"zscore", "percentile", "minmax"}
                            THEN raw
                            ELSE [id \in DOMAIN raw |->
                                    norm[CHOOSE k \in 1..Len(schoolIds) : schoolIds[k] = id]]]

\* The platform's choices for one call: the sort orders of the columns in key order.
PlatformsById(sch, presetName, method) ==
    IF PresetLookup(presetName).kind = "undefined"
    THEN Platforms(<<>>, <<>>, "none")
    ELSE LET raw == RawPositionsById(sch, presetName)
             schoolIds == ObjectKeys(sch)
         IN  Platforms([k \in 1..Len(sch) |-> raw[schoolIds[k]][1]],
                       [k \in 1..Len(sch) |-> raw[schoolIds[k]][2]], method)

KeyedInit ==
    /\ rendered = FALSE
    /\ data = "far"
    /\ collisionEnabled = FALSE
    /\ nodes = <<>>
    /\ forces = InitForces
    /\ xz = <<>>
    /\ alpha = 1000000
    /\ alphaDecay = 2
    /\ running = TRUE
    /\ tickHandler = "none"
    /\ endHandler = "none"
    /\ timers = <<>>
    /\ arrowPos = <<>>
    /\ gen = 0
    /\ runTicks = 0
    /\ lastOp = "new"
    /\ schools \in KeyedSchoolLists
    /\ values = <<>>
    /\ outcome = NoCall
    /\ controls = NoPage

CalculatePositionsById(presetName, method) ==
    /\ outcome = NoCall
    /\ \E pf \in PlatformsById(schools, presetName, method) :
          LET r == calculatePositionsById(schools, presetName, method, pf)
          IN  outcome' = [op |-> "calculatePositions", preset |-> presetName,
                          method |-> method, error |-> r.error, result |-> r.positions]
    /\ UNCHANGED <<schools, values, rendererVars, pageVars>>

KeyedNext ==
    \E presetName \in RequestedPresets, method \in RequestedMethods :
        CalculatePositionsById(presetName, method)

KeyedSpec == KeyedInit /\ [][KeyedNext]_vars

\* ------------------------------------------------- page: variant controls

\* The two versions of setupVariantControls: main.js uses the loading indicator
\* and its children unchecked, part_004 tests each for null first.
Versions == {"main", "part_004"}

\* The page's loading indicator: complete, without its .spinner, without its p,
\* or absent from the document.
Doms == {"complete", "noSpinner", "noText", "noIndicator"}

\* Options of the two dropdowns.
PresetOptions == {"base", "state-emphasis"}
NormalizationOptions == {"percentile", "zscore"}

\* Showing 'Cargando variante...' in the try block throws a TypeError when the
\* element it dereferences is null and not tested.
ShowLoadingThrows(c) == c.version = "main" /\ c.dom \in {"noIndicator", "noText"}

\* The catch block: "timer" when it gets to schedule the 3000 ms re-enable,
\* "enabled" when it re-enables at once (part_004 without indicator), "throws" when
\* showing the error dereferences null before the timer is scheduled.
ShowError(c) ==
    IF c.version = "main"
    THEN IF c.dom = "complete" THEN "timer" ELSE "throws"
    ELSE IF c.dom = "noIndicator" THEN "enabled" ELSE "timer"

\* presetDropdown.disabled = true only.
DisableControlsPresetOnly(c) == [c EXCEPT !.presetDisabled = TRUE]

\* presetDropdown.disabled = true; normalizationDropdown.disabled = true;
DisableControls(c) == [c EXCEPT !.presetDisabled = TRUE, !.normalizationDisabled = TRUE]

\* presetDropdown.disabled = false; normalizationDropdown.disabled = false;
EnableControls(c) == [c EXCEPT !.presetDisabled = FALSE, !.normalizationDisabled = FALSE]

\* A sequence without its k-th element.
Without(seq, k) == [i \in 1..(Len(seq) - 1) |-> IF i < k THEN seq[i] ELSE seq[i + 1]]

\* The catch block run for request k (k = 0: a request that has not got to its
\* first await): what becomes of the controls and of the request.
CatchBlock(c, k) ==
    LET rest == IF k = 0 THEN c.requests ELSE Without(c.requests, k)
    IN  CASE ShowError(c) = "timer"   ->
                [c EXCEPT !.requests = IF k = 0 THEN Append(@, "failed")
                                       ELSE [@ EXCEPT ![k] = "failed"]]
          [] ShowError(c) = "enabled" -> EnableControls([c EXCEPT !.requests = rest])
          [] OTHER                    -> [c EXCEPT !.requests = rest]

\* init() has rendered base-percentile and setupVariantControls has registered
\* loadAndUpdateVariant on both dropdowns.
ControlsInit ==
    /\ rendered = FALSE
    /\ data = "far"
    /\ collisionEnabled = FALSE
    /\ nodes = <<>>
    /\ forces = InitForces
    /\ xz = <<>>
    /\ alpha = 1000000
    /\ alphaDecay = 2
    /\ running = TRUE
    /\ tickHandler = "none"
    /\ endHandler = "none"
    /\ timers = <<>>
    /\ arrowPos = <<>>
    /\ gen = 0
    /\ runTicks = 0
    /\ lastOp = "new"
    /\ schools = <<>>
    /\ values = <<>>
    /\ outcome = NoCall
    /\ \E version \in Versions, dom \in Doms :
          controls = [version |-> version, dom |-> dom,
                      preset |-> "base", normalization |-> "percentile",
                      presetDisabled |-> FALSE, normalizationDisabled |-> FALSE,
                      requests |-> <<>>, shown |-> <<"base", "percentile">>,
                      accepted |-> 0]

\* A 'change' event of one dropdown, which the user can only cause while that
\* dropdown is enabled: loadAndUpdateVariant up to its first await. It disables
\* both dropdowns, shows the loading text and calls loadVariant.
Change(which, value) ==
    /\ controls.accepted < MaxChanges
    /\ IF which = "preset"
       THEN ~controls.presetDisabled /\ value \in PresetOptions /\ value # controls.preset
       ELSE ~controls.normalizationDisabled /\ value \in NormalizationOptions
            /\ value # controls.normalization
    /\ LET chosen == IF which = "preset" THEN [controls EXCEPT !.preset = value]
                     ELSE [controls EXCEPT !.normalization = value]
           c1     == DisableControls([chosen EXCEPT !.accepted = @ + 1])
       IN  controls' = IF ShowLoadingThrows(c1) THEN CatchBlock(c1, 0)
                       ELSE [c1 EXCEPT !.requests = Append(@, "loading")]
    /\ UNCHANGED <<rendererVars, scoreVars>>

\* loadVariant rejects, or mergeVariantWithBase throws: the catch block.
VariantLoadFails(k) ==
    /\ k \in 1..Len(controls.requests)
    /\ controls.requests[k] = "loading"
    /\ controls' = CatchBlock(controls, k)
    /\ UNCHANGED <<rendererVars, scoreVars>>

\* loadVariant resolves and updateVariant returns: the 850 ms wait begins.
VariantApplied(k) ==
    /\ k \in 1..Len(controls.requests)
    /\ controls.requests[k] = "loading"
    /\ controls' = [controls EXCEPT !.requests[k] = "settling",
                                    !.shown = <<controls.preset, controls.normalization>>]
    /\ UNCHANGED <<rendererVars, scoreVars>>

\* loadVariant resolves and updateVariant throws after this.data = newData: the
\* catch block.
VariantApplyThrows(k) ==
    /\ k \in 1..Len(controls.requests)
    /\ controls.requests[k] = "loading"
    /\ controls' = CatchBlock([controls EXCEPT
                                  !.shown = <<controls.preset, controls.normalization>>], k)
    /\ UNCHANGED <<rendererVars, scoreVars>>

\* The 850 ms timeout of the success path: hide the indicator, enable both dropdowns.
SettledTimeout(k) ==
    /\ k \in 1..Len(controls.requests)
    /\ controls.requests[k] = "settling"
    /\ controls' = EnableControls([controls EXCEPT !.requests = Without(@, k)])
    /\ UNCHANGED <<rendererVars, scoreVars>>

\* The 3000 ms timeout of the catch block: hide the error, enable both dropdowns.
ErrorTimeout(k) ==
    /\ k \in 1..Len(controls.requests)
    /\ controls.requests[k] = "failed"
    /\ controls' = EnableControls([controls EXCEPT !.requests = Without(@, k)])
    /\ UNCHANGED <<rendererVars, scoreVars>>

\* What happens without the user: promises settle and timeouts fire.
ControlsProgress ==
    \E k \in 1..MaxChanges :
        \/ VariantLoadFails(k)
        \/ VariantApplied(k)
        \/ VariantApplyThrows(k)
        \/ SettledTimeout(k)
        \/ ErrorTimeout(k)

ControlsNext ==
    \/ \E which \in {"preset", "normalization"},
          value \in PresetOptions \cup NormalizationOptions : Change(which, value)
    \/ \E k \in 1..MaxChanges : VariantLoadFails(k)
    \/ \E k \in 1..MaxChanges : VariantApplied(k)
    \/ \E k \in 1..MaxChanges : VariantApplyThrows(k)
    \/ \E k \in 1..MaxChanges : SettledTimeout(k)
    \/ \E k \in 1..MaxChanges : ErrorTimeout(k)

ControlsSpec == ControlsInit /\ [][ControlsNext]_vars

\* The event loop runs every settled promise's continuation and every timeout that
\* is due; the user is not obliged to change anything.
ControlsFairSpec == ControlsSpec /\ WF_vars(ControlsProgress)

\* ------------------------------------------------------------ properties

\* The safety radius of a pair: the two live collision radii added, the
\* centre distance under which forceCollide treats the pair as overlapping.
SafetyRadius(i, j) == Radius("live", i) + Radius("live", j)

\* (dx, dy) is at least r long; the squares are only taken when both fit.
AtLeast(dx, dy, r) == Abs(dx) >= r \/ Abs(dy) >= r \/ dx * dx + dy * dy >= r * r

TargetsApart(i, j) ==
    AtLeast(nodes[i].tx - nodes[j].tx, nodes[i].ty - nodes[j].ty, SafetyRadius(i, j))

PositionsApart(i, j, r) == AtLeast(nodes[i].x - nodes[j].x, nodes[i].y - nodes[j].y, r)

AtTarget(n) == nodes[n].x = nodes[n].tx /\ nodes[n].y = nodes[n].ty

\* A run with collisions on has come to rest.
Settled == rendered /\ collisionEnabled /\ ~running

\* C1: once a run with collisions on has decayed to rest (alpha fell below
\* alphaMin by itself), an item whose target is at least the safety radius away
\* from every other target sits on its target, to within one pixel (110 units)
\* on each axis.
FarPairsUntouched ==
    (Settled /\ alpha > 0) =>
        \A i \in Nodes :
            (\A j \in Nodes \ {i} : TargetsApart(i, j))
                => /\ Abs(nodes[i].x - nodes[i].tx) <= 110
                   /\ Abs(nodes[i].y - nodes[i].ty) <= 110

\* C2: a step that is not a preset change leaves every target as it was, and
\* whenever such a step ends with collisions off every item sits exactly on
\* that target: switching collisions on and off again, with any ticks and
\* timeouts in between and afterwards, leaves no drift.
ZeroNetDrift ==
    [][ (rendered /\ lastOp' # "update")
            => /\ Targets(nodes') = Targets(nodes)
               /\ ~collisionEnabled'
                    => \A n \in Nodes : /\ nodes'[n].x = nodes[n].tx
                                        /\ nodes'[n].y = nodes[n].ty ]_vars

\* C3: in every state with collisions off the collision and charge forces are
\* not registered and every item sits exactly on its current target, so that
\* switching collisions on again starts from the targets.
DisabledStateInvariant ==
    (rendered /\ ~collisionEnabled)
        => /\ ~HasForce(forces, "collision")
           /\ ~HasForce(forces, "charge")
           /\ \A n \in Nodes : AtTarget(n)

\* C4: every item's position, read back in normalized coordinates, lies in
\* [-1, 1] on both axes in every state of every run.
BoundaryContainment ==
    rendered =>
        \A n \in Nodes :
            /\ XScale(-10000) <= nodes[n].x /\ nodes[n].x <= XScale(10000)
            /\ YScale(10000) <= nodes[n].y /\ nodes[n].y <= YScale(-10000)

\* C5: a 4000 ms timeout that fires after a later request has been made is a
\* no-op: it does not restart or stop the simulation, does not touch alpha,
\* and moves neither an item nor an arrow.
StaleTimeoutIsNoOp ==
    [][ (timers # <<>> /\ lastOp' = "timeout" /\ Head(timers) < gen)
            => /\ running' = running
               /\ alpha' = alpha
               /\ nodes' = nodes
               /\ arrowPos' = arrowPos ]_vars

\* C6: right after a preset change every item carries its new target, one
\* that the new preset's scores and some jitter produce, and zero velocity,
\* whether or not the simulation was running when the change arrived.
UpdateIsAtomicSwap ==
    (rendered /\ lastOp = "update")
        => /\ \E jt \in JitterTables :
                \A n \in Nodes :
                    <<nodes[n].tx, nodes[n].ty>> = PixelTarget(Posicion(data)[n], jt[n])
           /\ \A n \in Nodes : nodes[n].vx = 0 /\ nodes[n].vy = 0

\* C7: a run started by a render, a preset change, a toggle or a timeout
\* stops by itself after at most 135 ticks: the tick count of a run never
\* exceeds 135 and a run that has made 135 ticks has stopped.
SettlingTerminates ==
    rendered => /\ runTicks <= 135
                /\ runTicks = 135 => ~running

\* A run that started from alpha 1 has used all 135 ticks and stopped.
SettlingTerminatesWitness ==
    rendered /\ collisionEnabled /\ ~running /\ runTicks = 135 /\ lastOp = "tick"

\* C8: once a run with collisions on has come to rest, two items whose
\* targets are closer than the safety radius are at least the safety radius
\* apart (to within 0.1 px, 11 units), and neither is further from its target
\* than the safety radius.
OverlapsResolved ==
    Settled =>
        \A i \in Nodes : \A j \in Nodes \ {i} :
            ~TargetsApart(i, j)
                => /\ PositionsApart(i, j, SafetyRadius(i, j) - 11)
                   /\ Abs(nodes[i].x - nodes[i].tx) <= SafetyRadius(i, j)
                   /\ Abs(nodes[i].y - nodes[i].ty) <= SafetyRadius(i, j)

\* C9: after jitter and clamping no two items have the same target.
TargetsDistinct ==
    rendered =>
        \A i \in Nodes : \A j \in Nodes \ {i} :
            <<nodes[i].tx, nodes[i].ty>> # <<nodes[j].tx, nodes[j].ty>>

Finite(v) == v[2] # 0

\* A number within [-1, 1].
InUnit(v) == v[2] > 0 /\ -v[2] <= v[1] /\ v[1] <= v[2]

IsZero(v) == v[2] # 0 /\ v[1] = 0
IsMinusOne(v) == v[2] > 0 /\ v[1] = -v[2]
IsPlusOne(v) == v[2] > 0 /\ v[1] = v[2]

\* a < b for two numbers with positive denominators.
Less(a, b) == a[1] * b[2] < b[1] * a[2]

\* A call that returned positions.
ReturnedPositions ==
    outcome.op \in {"calculatePositions", "calculateVariant"} /\ outcome.error = ""

\* C11: for every defined preset and every combination of descriptor values, missing
\* and unrecognized ones included, the position calculatePositions computes without
\* normalization has x and y within [-1, 1].
ScoreOutputInUnitSquare ==
    (outcome.op = "calculatePositions" /\ outcome.method = "none"
        /\ outcome.preset \in PresetNames /\ outcome.error = "")
    => \A i \in 1..Len(outcome.result) :
          InUnit(outcome.result[i][1]) /\ InUnit(outcome.result[i][2])

\* C12: calculatePositions, getWeightPreset and calculateVariant, asked for a preset
\* name that WEIGHT_PRESETS does not define, fail with an error under every
\* normalization and return neither positions nor weights.
UndefinedPresetFails ==
    (outcome.op \in {"calculatePositions", "getWeightPreset", "calculateVariant"}
        /\ outcome.preset \notin PresetNames)
    => outcome.error # ""


\* C13: a preset or normalization switch that fails, while loading or computing
\* the variant or while updateVariant applies it, leaves the renderer's data and
\* every item's target and position as they were before the request.
FailedSwitchChangesNothing ==
    [][ lastOp' \in {"loadFailed", "updateFailed"}
            => /\ data' = data
               /\ \A n \in 1..Len(nodes) :
                     /\ nodes'[n].tx = nodes[n].tx /\ nodes'[n].ty = nodes[n].ty
                     /\ nodes'[n].x = nodes[n].x /\ nodes'[n].y = nodes[n].y ]_vars

\* The normalization names applyNormalization and calculatePositions know.
KnownMethods == {"none", "zscore", "percentile", "minmax"}

NormalizerOps == {"zscoreNormalize", "percentileNormalize", "minmaxNormalize"}

\* C15: no NaN and no infinity is produced by scoring plus normalization or handed
\* to the solver as a target, for every school list (one school, none, equal ones,
\* missing descriptors), every value set, every preset and every normalization.
NoNonFiniteCoordinate ==
    /\ ReturnedPositions
        => \A i \in 1..Len(outcome.result) :
              /\ Finite(outcome.result[i][1]) /\ Finite(outcome.result[i][2])
              /\ Finite(SolverTarget(outcome.result[i])[1])
              /\ Finite(SolverTarget(outcome.result[i])[2])
    /\ outcome.op \in NormalizerOps
        => \A i \in 1..Len(outcome.result) : Finite(outcome.result[i])

PercentileOfOneIsZero ==
    (outcome.op = "percentileNormalize" /\ Len(values) = 1)
    => Len(outcome.result) = 1 /\ IsZero(outcome.result[1])

\* All values of a non-empty list are the same number.
Constant(vals) == \A i \in 1..Len(vals) : vals[i] = vals[1]

\* The x or y column of a list of positions.
Column(positions, axis) == [i \in 1..Len(positions) |-> positions[i][axis]]

\* What a normalizer's output for the numbers vals has of the range [-1, 1]:
\* percentile of one value is NaN and otherwise reaches both ends; minmax reaches
\* both ends unless all values are equal, and is then 0 throughout; zscore reaches
\* at least one end unless all values are equal, and is then -1, 0 or 1 throughout.
RangeLaw(method, vals, out) ==
    LET n == Len(vals)
        hasLow  == \E i \in 1..n : IsMinusOne(out[i])
        hasHigh == \E i \in 1..n : IsPlusOne(out[i])
    IN  /\ Len(out) = n
        /\ IF method = "percentile" /\ n = 1
           THEN out[1] = NaN
           ELSE \A i \in 1..n : InUnit(out[i])
        /\ (method = "percentile" /\ n > 1) => hasLow /\ hasHigh
        /\ method = "minmax" =>
              IF Constant(vals) THEN \A i \in 1..n : IsZero(out[i])
              ELSE hasLow /\ hasHigh
        /\ method = "zscore" =>
              IF Constant(vals)
              THEN /\ \A i \in 1..n : out[i] = out[1]
                   /\ IsZero(out[1]) \/ IsMinusOne(out[1]) \/ IsPlusOne(out[1])
              ELSE hasLow \/ hasHigh

ZscoreConstantIsZero ==
    (outcome.op = "zscoreNormalize" /\ Len(values) >= 1 /\ Constant(values))
    => \A i \in 1..Len(outcome.result) : IsZero(outcome.result[i])

RawInInputOrder(sch, presetName) ==
    [i \in 1..Len(sch) |->
        calculateSchoolPosition(sch[i].descriptores, PresetLookup(presetName)).pos]

\* The place of school i among the keys of the positions object.
KeyPlace(sch, i) == CHOOSE k \in 1..Len(sch) : ObjectKeys(sch)[k] = sch[i].id

\* The percentile of raw[i] on an axis, counted from the schools themselves: the
\* schools with a smaller value, or the same value and an earlier key, come before.
PercentileByCount(sch, raw, axis, i) ==
    LET n == Len(sch)
        c == Cardinality({j \in 1..n :
                \/ Less(raw[j][axis], raw[i][axis])
                \/ raw[j][axis] = raw[i][axis] /\ KeyPlace(sch, j) < KeyPlace(sch, i)})
    IN  IF n = 1 THEN NaN ELSE <<2 * c - (n - 1), n - 1>>

\* C21: in every normalization mode the positions returned have exactly the ids of
\* the schools given, and the x and y under an id are the ones that school's own raw
\* x and y normalize to: the raw values themselves for none and unknown names, the
\* school's entry when the columns are normalized in input order for zscore and
\* minmax, and the percentile of the school's own value for percentile.
ItemCorrespondence ==
    (outcome.op = "calculatePositions" /\ outcome.error = "" /\ schools \in KeyedSchoolLists)
    => LET n   == Len(schools)
           raw == RawInInputOrder(schools, outcome.preset)
           col(axis) == Column(raw, axis)
       IN  /\ DOMAIN outcome.result = {schools[i].id : i \in 1..n}
           /\ \A i \in 1..n : \A axis \in 1..2 :
                 LET out == outcome.result[schools[i].id][axis]
                 IN  CASE outcome.method = "zscore" -> out = zscoreNormalize(col(axis))[i]
                       [] outcome.method = "minmax" -> out = minmaxNormalize(col(axis))[i]
                       [] outcome.method = "percentile" ->
                             HasNaN(col(axis)) \/ out = PercentileByCount(schools, raw, axis, i)
                       [] OTHER -> out = raw[i][axis]

\* Two schools given in the order "10", "9", which Object.keys lists as "9", "10",
\* the first with the smaller x: under percentile "10" is at -1 and "9" at +1.
ItemCorrespondenceWitness ==
    /\ outcome.op = "calculatePositions"
    /\ outcome.error = ""
    /\ outcome.method = "percentile"
    /\ schools \in KeyedSchoolLists
    /\ Len(schools) = 2
    /\ schools[1].id = "10" /\ schools[2].id = "9"
    /\ LET raw == RawInInputOrder(schools, outcome.preset)
       IN  Finite(raw[1][1]) /\ Finite(raw[2][1]) /\ Less(raw[1][1], raw[2][1])
    /\ IsMinusOne(outcome.result["10"][1])
    /\ IsPlusOne(outcome.result["9"][1])

\* The position of a school when every descriptor that is missing, malformed or in
\* no score table counts zero on both axes and the others count as scored.
DegradedPosition(descriptors, weights) ==
    IF descriptors = NoRecord THEN <<Thousandths(0), Thousandths(0)>>
    ELSE << ClipUnit(Thousandths(WeightedSum(descriptors, weights.x, 1, 6))),
            ClipUnit(Thousandths(WeightedSum(descriptors, weights.y, 2, 6))) >>

\* C22: under a defined preset calculatePositions never aborts because of a
\* school's descriptors, a school without any descriptor record included, and each
\* school is positioned with its missing, malformed or unlisted descriptors counting
\* zero on both axes and its other dimensions counting as scored.
DegradesLocally ==
    (outcome.op = "calculatePositions" /\ outcome.method = "none"
        /\ outcome.preset \in PresetNames)
    => /\ outcome.error = ""
       /\ Len(outcome.result) = Len(schools)
       /\ \A i \in 1..Len(schools) :
             outcome.result[i] = DegradedPosition(schools[i], PresetLookup(outcome.preset))

\* C23: a preset or normalization change leaves every item where it was, its
\* prior position being the start of the settling towards the new target; the
\* positions are not set to the new targets by the change itself.
UpdateStartsFromPriorPositions ==
    [][ (rendered /\ lastOp' = "update")
            => \A n \in 1..Len(nodes) :
                  nodes'[n].x = nodes[n].x /\ nodes'[n].y = nodes[n].y ]_vars

\* C24: on every tick of a settling simulation, whether started by the first
\* render, by setCollisionEnabled(true) or by updateVariant, the arrows are redrawn
\* from the positions the nodes have after that tick.
ArrowsFollowEveryTick ==
    [][ (rendered /\ lastOp' = "tick" /\ running')
            => arrowPos' = ArrowsFromPositions(nodes') ]_vars

\* C25: a stopped simulation starts again only by a request, that is a render, a
\* setCollisionEnabled or an updateVariant call, never by a timer or callback an
\* earlier request left behind.
StableUntilRequested ==
    [][ (~running /\ running') => lastOp' \in {"render", "toggle", "update"} ]_vars

\* C26: for more than one value, percentileNormalize applied to its own output
\* returns that output unchanged.
PercentileIdempotent ==
    (outcome.op = "percentileNormalizeOutput" /\ Len(values) > 1)
    => outcome.result = values

\* Three ranked values, not in ascending order, ranked again.
PercentileIdempotentWitness ==
    /\ outcome.op = "percentileNormalizeOutput"
    /\ Len(values) = 3
    /\ IsPlusOne(values[1]) /\ IsMinusOne(values[2]) /\ IsZero(values[3])
    /\ Len(outcome.result) = 3

InBand(nd) ==
    /\ XScale(-9500) + 1650 <= nd.x /\ nd.x <= XScale(9500) - 1650
    /\ YScale(9500) + 1650 <= nd.y /\ nd.y <= YScale(-9500) - 1650

\* The nodes as a tick leaves them before the 'tick' listener runs.
BeforeClamp == Integrate(ApplyForces(nodes, forces, 1, xz, AlphaStep(alpha, alphaDecay), JiggleDir))

\* C29: the boundary clamp of the tick handler leaves a node whose x and y are
\* inside the band exactly where the tick put it, on both axes.
ClampKeepsInsideNodes ==
    [][ (running /\ tickHandler = "render" /\ lastOp' = "tick")
            => \A n \in 1..Len(nodes) :
                  InBand(BeforeClamp[n])
                      => nodes'[n].x = BeforeClamp[n].x /\ nodes'[n].y = BeforeClamp[n].y ]_vars

\* A page with its variant controls.
OnPage == controls.version \in Versions

\* C27: at most one variant load or update is in flight at any time, and while
\* one is, from its acceptance to its completion, both dropdowns are disabled.
OneRequestInFlight ==
    OnPage => /\ Len(controls.requests) <= 1
              /\ Len(controls.requests) = 1
                    => controls.presetDisabled /\ controls.normalizationDisabled

\* A second change, accepted after the first one completed, is being applied.
OneRequestInFlightWitness ==
    /\ OnPage
    /\ controls.accepted = 2
    /\ controls.requests = <<"settling">>
    /\ controls.presetDisabled /\ controls.normalizationDisabled

\* C28: every accepted change eventually re-enables both dropdowns, on the success
\* path and on every failure path: disabled controls never stay disabled.
ControlsReenabled ==
    (OnPage /\ controls.presetDisabled /\ controls.normalizationDisabled)
        ~> (~controls.presetDisabled /\ ~controls.normalizationDisabled)

====
